---- MODULE Spec2Model ----
(***************************************************************************)
(* Model of src/sim/verilator_main.cpp: the batch driver that loads a      *)
(* program image, writes a reference extract, takes the DUT through reset, *)
(* steps it cycle by cycle against a fixed-latency memory and dumps the    *)
(* image when the program signals completion.                              *)
(*                                                                         *)
(* The DUT (Vvproc_top) is opaque: every eval() may leave any value of the *)
(* stub's output set on the outbound request pins.                         *)
(***************************************************************************)
EXTENDS Integers, Sequences, FiniteSets, TLC

(* ------------------------------ bounds -------------------------------- *)
MaxLatency == 2      \* mem_latency ranges over 0..MaxLatency
MaxExtra   == 2      \* extra_cycles ranges over 0..MaxExtra
MaxCycles  == 3      \* active cycles explored per program
MaxLines   == 2      \* lines of the program list in a batch run

(* -------------------------- program constants -------------------------- *)
ResetCycles == 10

(* ------------------------------ inputs -------------------------------- *)
\* <<MEM_W (bits), MEM_SZ (bytes)>>: the first is the geometry the latency and
\* termination arguments are varied on
Geom0 == <<16, 4>>
Geoms == {Geom0, <<8, 3>>, <<16, 3>>}
\* an image of two 32-bit words, for the file blocks
Geom2 == <<16, 8>>
JunkBytes == {0, 238}            \* what a read outside an allocation may return
JunkBits  == {0, 1}
WDatas   == {41394}               \* 0xA1B2, the write data the DUT drives
ImgWords == <<67305985>>          \* 0x04030201, the words of an image line
\* a second word, 0x80FF00A5, as the int the loader holds it in
ImgWords2 == ImgWords \o <<-2130771803>>

(* A line of a memory-image file: a comment, or an optional @<hex> word    *)
(* address (at = -1 when absent) followed by 32-bit words.                 *)
Images ==
  { << [comment |-> TRUE,  at |-> -1, words |-> << >>],
       [comment |-> FALSE, at |-> -1, words |-> ImgWords] >>,
    << [comment |-> FALSE, at |-> 1,  words |-> ImgWords] >>,
    << [comment |-> FALSE, at |-> 1,  words |-> <<287454020>>],
       [comment |-> FALSE, at |-> 0,  words |-> ImgWords2] >> }

(* [start, end) byte ranges of a program-list line *)
Ranges == { <<0, 0>>, <<0, 4>>, <<0, 8>>, <<4, 8>> }

(* ----------------------------- arithmetic ------------------------------ *)
RECURSIVE Pow2(_)
Pow2(n) == IF n <= 0 THEN 1 ELSE 2 * Pow2(n - 1)

\* a & ~m on non-negative a; m = -1 (mem_w < 8) gives ~m = 0
RECURSIVE AndNot(_, _)
AndNot(a, m) ==
  IF a = 0 \/ m < 0 THEN 0
  ELSE (a % 2) * (1 - (m % 2)) + 2 * AndNot(a \div 2, m \div 2)

ByteOf(v, i) == (v \div Pow2(8 * i)) % 256
BitOf(v, i)  == (v \div Pow2(i)) % 2

(* ------------------------------- state -------------------------------- *)
VARIABLES
  mem_w, mem_sz, mem_latency, extra_cycles,   \* parsed arguments (lines 20-43)
  dut_outs,          \* the output records the DUT stub may drive
  lines_left,        \* lines of the program list not yet read by getline
  prog_no,           \* well-formed lines read so far
  pc,                \* position of main
  mem,               \* MemoryImage: mem[0 .. mem_sz-1]
  mem_rvalid_queue, mem_rdata_queue, mem_err_queue,
  top,               \* the DUT's pins
  i,                 \* reset-loop counter (line 146)
  end_cnt,           \* line 156
  fcsv,              \* the per-cycle log: the lines written so far
  fout,              \* the lines the file block just executed wrote through ftmp
  stderr,            \* the errors that block reported: <<prog_no, kind>>
  exit_code,         \* -1 while running
  \* history (observation only)
  q_idx,             \* queue indices used so far
  mem_oob,           \* the last access to MemoryImage used an index outside [0, mem_sz)
  null_io,           \* the stdio calls that block made on a NULL handle
  pushed,            \* the last mem_latency+1 responses pushed in this program, newest first
  cycle,             \* active cycles completed in this program
  zero_at,           \* cycle (0-based) whose falling edge first showed req & addr 0
  n_fall,            \* falling-edge evaluations done, over the whole batch
  mem_loaded,        \* the image right after loading
  wrote,             \* the stepper serviced a valid write request in this program
  fprog,             \* the image file the loader just read
  rng                \* the [start, end) range the file block just executed covered

cfg  == <<mem_w, mem_sz, mem_latency, extra_cycles, dut_outs>>
qs   == <<mem_rvalid_queue, mem_rdata_queue, mem_err_queue>>
hist == <<q_idx, mem_oob, null_io, pushed, cycle, zero_at, n_fall, mem_loaded, wrote,
          fprog, rng>>
vars == <<cfg, lines_left, prog_no, pc, mem, qs, top, i, end_cnt, fcsv, fout,
          stderr, exit_code, hist>>

(* ------------------------------ the DUT ------------------------------- *)
Out(req, we, addr, be, wdata) ==
  [req |-> req, we |-> we, addr |-> addr, be |-> be, wdata |-> wdata]

\* The requests of the wide stub: no request (write strobes set, address 0),
\* a read of address 0, a masked write of the top byte lane at address 0, an
\* unaligned read that wraps to word 0, and a read of the word at 2.
DutWide(w, sz) ==
  { Out(0, 1, 0, 3, d) : d \in WDatas }
  \cup { Out(1, 1, 0, Pow2(w \div 8 - 1), d) : d \in WDatas }
  \cup { Out(1, 0, 0, 0, 0), Out(1, 0, sz + 1, 0, 0), Out(1, 0, 2, 0, 0) }

\* The requests of the narrow stub used for batch runs.
DutNarrow(w, sz) ==
  { Out(0, 0, 0, 0, 0), Out(1, 0, 0, 0, 0), Out(1, 0, 2, 0, 0) }

\* top->eval(): the DUT recomputes its outputs; o is what it drives.
Eval(t, o) ==
  [t EXCEPT !.mem_req_o = o.req, !.mem_we_o = o.we, !.mem_addr_o = o.addr,
            !.mem_be_o = o.be, !.mem_wdata_o = o.wdata]

ZeroReq(t) == t.mem_req_o = 1 /\ t.mem_addr_o = 0

(* --------------------------- MemoryImage ------------------------------ *)
InImage(k) == 0 <= k /\ k < mem_sz

BusBytes == mem_w \div 8

\* line 159
EffAddr(a) == AndNot(a % mem_sz, BusBytes - 1)

\* line 166
ErrFlag(addr) == IF addr >= mem_sz THEN 1 ELSE 0

LaneAlways(be, n) == TRUE

\* line 162: byte lane n of the word is written
LaneEnabled(be, n) == BitOf(be, n) = 1

\* lines 160-164: the image after the request on pins t is applied
ApplyWrite(m, t, addr) ==
  IF t.mem_req_o # 0 /\ t.mem_we_o # 0
  THEN [k \in DOMAIN m |->
          IF k >= addr /\ k < addr + BusBytes /\ LaneEnabled(t.mem_be_o, k - addr)
          THEN ByteOf(t.mem_wdata_o, k - addr) ELSE m[k]]
  ELSE m

\* the indices lines 160-164 write
WriteIdx(t, addr) ==
  IF t.mem_req_o # 0 /\ t.mem_we_o # 0
  THEN { addr + n : n \in { x \in 0 .. BusBytes - 1 : LaneEnabled(t.mem_be_o, x) } }
  ELSE {}

\* mem[k], or junk when k lies outside the allocation
MemAt(m, k, junk) == IF k \in DOMAIN m THEN m[k] ELSE junk

\* lines 167-169
RECURSIVE ReadWord(_, _, _, _)
ReadWord(m, addr, n, junk) ==
  IF n = 0 THEN 0
  ELSE ReadWord(m, addr, n - 1, junk) + MemAt(m, addr + n - 1, junk) * Pow2(8 * (n - 1))

(* ------------------------------- load --------------------------------- *)
\* lines 112-116: one word at st.addr, little-endian, then addr += 4
LoadWord(st, data) ==
  [mem  |-> [k \in DOMAIN st.mem |->
               IF k >= st.addr /\ k < st.addr + 4 THEN ByteOf(data, k - st.addr)
               ELSE st.mem[k]],
   addr |-> st.addr + 4,
   oob  |-> st.oob \/ \E n \in 0 .. 3 : (st.addr + n) \notin DOMAIN st.mem]

RECURSIVE LoadWords(_, _)
LoadWords(st, ws) ==
  IF ws = << >> THEN st ELSE LoadWords(LoadWord(st, Head(ws)), Tail(ws))

\* lines 103-119
LoadLine(st, line) ==
  IF line.comment THEN st
  ELSE LoadWords(IF line.at >= 0 THEN [st EXCEPT !.addr = line.at * 4] ELSE st,
                 line.words)

RECURSIVE LoadLines(_, _)
LoadLines(st, img) ==
  IF img = << >> THEN st ELSE LoadLines(LoadLine(st, Head(img)), Tail(img))

\* lines 99-120: memset, then the file line by line
LoadFile(img) ==
  LoadLines([mem |-> [k \in 0 .. mem_sz - 1 |-> 0], addr |-> 0, oob |-> FALSE], img)

(* ------------------------------- dump --------------------------------- *)
\* lines 132 and 207: the bytes or-ed into data, least significant first
\* (kept apart: the 32-bit word can exceed TLC's integers)
\* the bytes taken most significant first
WordAtBigEndian(m, addr, junk) == [n \in 0 .. 3 |-> MemAt(m, addr + 3 - n, junk)]

WordAt(m, addr, junk) == [n \in 0 .. 3 |-> MemAt(m, addr + n, junk)]

\* "%08x" of data: eight hex digits, most significant first
Hex8(w) == [d \in 1 .. 8 |->
              IF d % 2 = 1 THEN w[3 - ((d - 1) \div 2)] \div 16
              ELSE w[3 - ((d - 1) \div 2)] % 16]

\* lines 131-134 and 206-209
RECURSIVE DumpLines(_, _, _, _)
DumpLines(m, addr, end, junk) ==
  IF addr < end
  THEN <<Hex8(WordAt(m, addr, junk))>> \o DumpLines(m, addr + 4, end, junk)
  ELSE << >>

DumpOob(start, end) ==
  \E a \in start .. end - 1 : (a - start) % 4 = 0 /\ \E n \in 0 .. 3 : ~InImage(a + n)

(* ---------------------------- LatencyQueue ---------------------------- *)
\* q[k] = v; a store outside the allocation does not reach the queue
QueuePut(q, k, v) == IF k \in DOMAIN q THEN [q EXCEPT ![k] = v] ELSE q

\* the slot just pushed
DeliverSlotNewest == IF mem_latency > 0 THEN 0 ELSE -1

\* lines 176-178: the slot delivered
DeliverSlot == mem_latency - 1

\* lines 180-184: for (i = mem_latency-1; i > 0; i--) q[i] = q[i-1]
RECURSIVE ShiftFrom(_, _)
ShiftFrom(q, k) == IF k > 0 THEN ShiftFrom([q EXCEPT ![k] = q[k - 1]], k - 1) ELSE q

\* no slot moved
ShiftNone(q) == ShiftFrom(q, 0)

ShiftQueue(q) == ShiftFrom(q, mem_latency - 1)

ShiftIdx == UNION { {k, k - 1} : k \in 1 .. mem_latency - 1 }

(* ------------------------- undefined behaviour ------------------------ *)
\* After an access outside an allocation or a stdio call on a NULL handle
\* the process may go on or be killed.
NextPc(ub, nxt) == IF ub THEN {nxt, "crashed"} ELSE {nxt}

(* ------------------------------- log ---------------------------------- *)
\* line 59
Header == [kind |-> "header", rst_ni |-> -1]

\* lines 237-240: the row of the pins; the request fields it prints are the
\* DUT's outputs and are not kept
LogRow(t) == [kind |-> "row", rst_ni |-> t.rst_ni]

(* ------------------------------- Init --------------------------------- *)
Top0 ==
  [clk_i |-> 0, rst_ni |-> 0, mem_rvalid_i |-> 0, mem_rdata_i |-> 0, mem_err_i |-> 0,
   mem_req_o |-> 0, mem_we_o |-> 0, mem_addr_o |-> 0, mem_be_o |-> 0, mem_wdata_o |-> 0]

\* The state at line 59: arguments parsed, both files open, buffers
\* allocated.  The data and error queues are not initialised by the code.
InitWith(args, lines, wide) ==
  /\ \E a \in args :
       /\ mem_w = a[1]
       /\ mem_sz = a[2]
       /\ mem_latency = a[3]
       /\ extra_cycles = a[4]
  /\ dut_outs = IF wide THEN DutWide(mem_w, mem_sz) ELSE DutNarrow(mem_w, mem_sz)
  /\ lines_left \in lines
  /\ prog_no = 0
  /\ pc = "start"
  \* mem and mem_rvalid_queue are written (lines 99, 141-142) before any read
  /\ mem = [k \in 0 .. mem_sz - 1 |-> 0]
  /\ mem_rvalid_queue = [k \in 0 .. mem_latency - 1 |-> 0]
  /\ \E j \in JunkBits :
       /\ mem_rdata_queue = [k \in 0 .. mem_latency - 1 |-> 238 * j]
       /\ mem_err_queue = [k \in 0 .. mem_latency - 1 |-> j]
  /\ top = Top0
  /\ i = 0
  /\ end_cnt = 0
  /\ fcsv = << >>
  /\ fout = << >>
  /\ stderr = {}
  /\ exit_code = -1
  /\ q_idx = {}
  /\ mem_oob = FALSE
  /\ null_io = {}
  /\ pushed = << >>
  /\ cycle = 0
  /\ zero_at = -2
  /\ n_fall = 0
  /\ mem_loaded = mem
  /\ wrote = FALSE
  /\ fprog = << >>
  /\ rng = <<0, 0>>

\* <<MEM_W, MEM_SZ, MEM_LATENCY, EXTRA_CYCLES>>: every latency with every
\* extra_cycles on Geom0, and every geometry at latency 1, extra_cycles 1
Args ==
  { <<Geom0[1], Geom0[2], l, e>> : l \in 0 .. MaxLatency, e \in 0 .. MaxExtra }
  \cup { <<g[1], g[2], 1, 1>> : g \in Geoms \cup {Geom2} }

ArgsBatch ==
  { <<Geom0[1], Geom0[2], l, 1>> : l \in 0 .. MaxLatency }
  \cup { <<g[1], g[2], 1, 1>> : g \in Geoms }

\* a one-line program list, the wide stub
Init == InitWith(Args, {1}, TRUE)

\* a program list of up to MaxLines lines, the narrow stub
InitBatch == InitWith(ArgsBatch, 1 .. MaxLines, FALSE)

(* ------------------------------ actions ------------------------------- *)
\* line 59
Start ==
  /\ pc = "start"
  /\ fcsv' = Append(fcsv, Header)
  /\ pc' = "getline"
  /\ UNCHANGED <<cfg, lines_left, prog_no, mem, qs, top, i, end_cnt, fout, stderr,
                 exit_code, hist>>

\* lines 82-90, a line of seven fields
Getline ==
  /\ pc = "getline"
  /\ lines_left > 0
  /\ lines_left' = lines_left - 1
  /\ prog_no' = prog_no + 1
  /\ fout' = << >>
  /\ stderr' = {}
  /\ null_io' = {}
  /\ rng' = <<0, 0>>
  /\ pc' = "open_prog"
  /\ UNCHANGED <<cfg, mem, qs, top, i, end_cnt, fcsv, exit_code, q_idx, mem_oob,
                 pushed, cycle, zero_at, n_fall, mem_loaded, wrote, fprog>>

\* lines 82-90, items != 7: continue
MalformedLine ==
  /\ pc = "getline"
  /\ lines_left > 0
  /\ lines_left' = lines_left - 1
  /\ UNCHANGED <<cfg, prog_no, pc, mem, qs, top, i, end_cnt, fcsv, fout, stderr,
                 exit_code, hist>>

\* lines 94-98: the program file does not open
OpenProgFail ==
  /\ pc = "open_prog"
  /\ stderr' = {<<prog_no, "prog">>}
  /\ pc' = "getline"
  /\ UNCHANGED <<cfg, lines_left, prog_no, mem, qs, top, i, end_cnt, fcsv, fout,
                 exit_code, hist>>

\* lines 94, 99-121
LoadProgram ==
  /\ pc = "open_prog"
  /\ \E im \in Images :
       LET st == LoadFile(im) IN
         /\ mem' = st.mem
         /\ mem_loaded' = st.mem
         /\ fprog' = im
         /\ mem_oob' = st.oob
         /\ pc' \in NextPc(st.oob, "ref")
  /\ UNCHANGED <<cfg, lines_left, prog_no, qs, top, i, end_cnt, fcsv, fout, stderr,
                 exit_code, q_idx, null_io, pushed, cycle, zero_at, n_fall, wrote, rng>>

\* lines 126-135 and 201-210: fopen, the words of [r[1], r[2]), fclose
FileBlock(kind, nxt) ==
  \E ok \in BOOLEAN, r \in Ranges :
    \E junk \in IF DumpOob(r[1], r[2]) THEN JunkBytes ELSE {0} :
      LET lines == DumpLines(mem, r[1], r[2], junk)
          oob   == DumpOob(r[1], r[2])
          calls == (IF lines = << >> THEN {} ELSE {<<prog_no, kind, "fprintf">>})
                   \cup {<<prog_no, kind, "fclose">>}
      IN /\ stderr' = (IF ok THEN {} ELSE {<<prog_no, kind>>})
         /\ fout' = (IF ok THEN lines ELSE << >>)
         /\ null_io' = (IF ok THEN {} ELSE calls)
         /\ mem_oob' = oob
         /\ rng' = r
         /\ pc' \in NextPc(~ok \/ oob, nxt)

\* lines 125-136
WriteReference ==
  /\ pc = "ref"
  /\ FileBlock("ref", "sim_init")
  /\ UNCHANGED <<cfg, lines_left, prog_no, mem, qs, top, i, end_cnt, fcsv, exit_code,
                 q_idx, pushed, cycle, zero_at, n_fall, mem_loaded, wrote, fprog>>

\* lines 141-145
SimInit ==
  /\ pc = "sim_init"
  /\ mem_rvalid_queue' = [k \in DOMAIN mem_rvalid_queue |-> 0]
  /\ top' = [top EXCEPT !.mem_rvalid_i = 0, !.clk_i = 0, !.rst_ni = 0]
  /\ i' = 0
  /\ q_idx' = q_idx \cup (0 .. mem_latency - 1)
  /\ fout' = << >>
  /\ stderr' = {}
  /\ null_io' = {}
  /\ pushed' = << >>
  /\ cycle' = 0
  /\ zero_at' = -2
  /\ wrote' = FALSE
  /\ fprog' = << >>
  /\ rng' = <<0, 0>>
  /\ pc' = "rst_rise"
  /\ UNCHANGED <<cfg, lines_left, prog_no, mem, mem_rdata_queue, mem_err_queue, end_cnt,
                 fcsv, exit_code, mem_oob, n_fall, mem_loaded>>

\* lines 147-148
RstRise ==
  /\ pc = "rst_rise"
  /\ \E o \in dut_outs : top' = Eval([top EXCEPT !.clk_i = 1], o)
  /\ pc' = "rst_fall"
  /\ UNCHANGED <<cfg, lines_left, prog_no, mem, qs, i, end_cnt, fcsv, fout, stderr,
                 exit_code, hist>>

\* lines 149-150
RstFall ==
  /\ pc = "rst_fall"
  /\ \E o \in dut_outs : top' = Eval([top EXCEPT !.clk_i = 0], o)
  /\ n_fall' = n_fall + 1
  /\ pc' = "rst_log"
  /\ UNCHANGED <<cfg, lines_left, prog_no, mem, qs, i, end_cnt, fcsv, fout, stderr,
                 exit_code, q_idx, mem_oob, null_io, pushed, cycle, zero_at,
                 mem_loaded, wrote, fprog, rng>>

RstLogNoRow ==
  /\ pc = "rst_log"
  /\ i' = i + 1
  /\ pc' = IF i + 1 < ResetCycles THEN "rst_rise" ELSE "rst_release"
  /\ UNCHANGED <<cfg, lines_left, prog_no, mem, qs, top, fcsv, end_cnt, fout, stderr,
                 exit_code, hist>>

\* the reset loop left one cycle early
RstLogShort ==
  /\ pc = "rst_log"
  /\ fcsv' = Append(fcsv, LogRow(top))
  /\ i' = i + 1
  /\ pc' = IF i + 1 < ResetCycles - 1 THEN "rst_rise" ELSE "rst_release"
  /\ UNCHANGED <<cfg, lines_left, prog_no, mem, qs, top, end_cnt, fout, stderr,
                 exit_code, hist>>

\* lines 151 and 146
RstLog ==
  /\ pc = "rst_log"
  /\ fcsv' = Append(fcsv, LogRow(top))
  /\ i' = i + 1
  /\ pc' = IF i + 1 < ResetCycles THEN "rst_rise" ELSE "rst_release"
  /\ UNCHANGED <<cfg, lines_left, prog_no, mem, qs, top, end_cnt, fout, stderr,
                 exit_code, hist>>

\* lines 153-156
RstRelease ==
  /\ pc = "rst_release"
  /\ \E o \in dut_outs : top' = Eval([top EXCEPT !.rst_ni = 1], o)
  /\ end_cnt' = 0
  /\ zero_at' = IF ZeroReq(top') THEN -1 ELSE -2
  /\ pc' = "loop"
  /\ UNCHANGED <<cfg, lines_left, prog_no, mem, qs, i, fcsv, fout, stderr, exit_code,
                 q_idx, mem_oob, null_io, pushed, cycle, n_fall, mem_loaded, wrote, fprog, rng>>

\* line 157
LoopTest ==
  /\ pc = "loop"
  /\ end_cnt < extra_cycles => cycle < MaxCycles
  /\ pc' = IF end_cnt < extra_cycles THEN "req" ELSE "dump"
  /\ UNCHANGED <<cfg, lines_left, prog_no, mem, qs, top, i, end_cnt, fcsv, fout, stderr,
                 exit_code, hist>>

\* the response lines 165-169 compute for the request on the pins
Response(m, t, addr, junk) ==
  <<t.mem_req_o, ReadWord(m, addr, BusBytes, junk), ErrFlag(addr)>>

\* lines 159-169
ServiceRequest ==
  /\ pc = "req"
  /\ LET addr == EffAddr(top.mem_addr_o)
         mem1 == ApplyWrite(mem, top, addr)
         used == WriteIdx(top, addr) \cup { addr + n : n \in 0 .. BusBytes - 1 }
         oob  == \E k \in used : ~InImage(k)
     IN \E junk \in IF oob THEN JunkBytes ELSE {0} :
          LET resp == Response(mem1, top, addr, junk) IN
            /\ mem' = mem1
            /\ mem_rvalid_queue' = QueuePut(mem_rvalid_queue, 0, resp[1])
            /\ mem_rdata_queue' = QueuePut(mem_rdata_queue, 0, resp[2])
            /\ mem_err_queue' = QueuePut(mem_err_queue, 0, resp[3])
            /\ q_idx' = q_idx \cup {0}
            /\ pushed' = SubSeq(<<resp>> \o pushed, 1,
                                IF Len(pushed) < mem_latency + 1 THEN Len(pushed) + 1
                                ELSE mem_latency + 1)
            /\ wrote' = (wrote \/ (top.mem_req_o # 0 /\ top.mem_we_o # 0))
            /\ mem_oob' = oob
            /\ pc' \in NextPc(oob \/ 0 \notin DOMAIN mem_rvalid_queue, "rise")
  /\ UNCHANGED <<cfg, lines_left, prog_no, top, i, end_cnt, fcsv, fout, stderr,
                 exit_code, null_io, cycle, zero_at, n_fall, mem_loaded, fprog, rng>>

\* lines 172-173
Rise ==
  /\ pc = "rise"
  /\ \E o \in dut_outs : top' = Eval([top EXCEPT !.clk_i = 1], o)
  /\ pc' = "deliver"
  /\ UNCHANGED <<cfg, lines_left, prog_no, mem, qs, i, end_cnt, fcsv, fout, stderr,
                 exit_code, hist>>

\* lines 176-179
Deliver ==
  /\ pc = "deliver"
  /\ \E junk \in IF DeliverSlot \in DOMAIN mem_rvalid_queue THEN {<<0, 0, 0>>}
                  ELSE JunkBits \X JunkBytes \X JunkBits, o \in dut_outs :
       LET s  == DeliverSlot
           ok == s \in DOMAIN mem_rvalid_queue
           jv == junk[1]
           jd == junk[2]
           je == junk[3]
       IN /\ top' = Eval([top EXCEPT
                            !.mem_rvalid_i = IF ok THEN mem_rvalid_queue[s] ELSE jv,
                            !.mem_rdata_i  = IF ok THEN mem_rdata_queue[s] ELSE jd,
                            !.mem_err_i    = IF ok THEN mem_err_queue[s] ELSE je], o)
          /\ q_idx' = q_idx \cup {s}
          /\ pc' \in NextPc(~ok, "advance")
  /\ UNCHANGED <<cfg, lines_left, prog_no, mem, qs, i, end_cnt, fcsv, fout, stderr,
                 exit_code, mem_oob, null_io, pushed, cycle, zero_at, n_fall,
                 mem_loaded, wrote, fprog, rng>>

\* lines 180-184
Advance ==
  /\ pc = "advance"
  /\ mem_rvalid_queue' = ShiftQueue(mem_rvalid_queue)
  /\ mem_rdata_queue' = ShiftQueue(mem_rdata_queue)
  /\ mem_err_queue' = ShiftQueue(mem_err_queue)
  /\ q_idx' = q_idx \cup ShiftIdx
  /\ pc' = "fall"
  /\ UNCHANGED <<cfg, lines_left, prog_no, mem, top, i, end_cnt, fcsv, fout, stderr,
                 exit_code, mem_oob, null_io, pushed, cycle, zero_at, n_fall,
                 mem_loaded, wrote, fprog, rng>>

\* lines 187-188
Fall ==
  /\ pc = "fall"
  /\ \E o \in dut_outs : top' = Eval([top EXCEPT !.clk_i = 0], o)
  /\ n_fall' = n_fall + 1
  /\ zero_at' = IF zero_at = -2 /\ ZeroReq(top') THEN cycle ELSE zero_at
  /\ cycle' = cycle + 1
  /\ pc' = "log"
  /\ UNCHANGED <<cfg, lines_left, prog_no, mem, qs, i, end_cnt, fcsv, fout, stderr,
                 exit_code, q_idx, mem_oob, null_io, pushed, mem_loaded, wrote, fprog, rng>>

\* line 191
LogCycle ==
  /\ pc = "log"
  /\ fcsv' = Append(fcsv, LogRow(top))
  /\ pc' = "endchk"
  /\ UNCHANGED <<cfg, lines_left, prog_no, mem, qs, top, i, end_cnt, fout, stderr,
                 exit_code, hist>>

\* the test without the counter
EndSeenNow(cnt, t) == t.mem_req_o = 1 /\ t.mem_addr_o = 0

\* line 193
EndSeen(cnt, t) == cnt > 0 \/ (t.mem_req_o = 1 /\ t.mem_addr_o = 0)

\* lines 193-195
EndCheck ==
  /\ pc = "endchk"
  /\ end_cnt' = IF EndSeen(end_cnt, top) THEN end_cnt + 1 ELSE end_cnt
  /\ pc' = "loop"
  /\ UNCHANGED <<cfg, lines_left, prog_no, mem, qs, top, i, fcsv, fout, stderr,
                 exit_code, hist>>

\* lines 200-211
WriteDump ==
  /\ pc = "dump"
  /\ FileBlock("dump", "getline")
  /\ UNCHANGED <<cfg, lines_left, prog_no, mem, qs, top, i, end_cnt, fcsv, exit_code,
                 q_idx, pushed, cycle, zero_at, n_fall, mem_loaded, wrote, fprog>>

\* lines 82 (end of the list) and 214-229
Exit ==
  /\ pc = "getline"
  /\ lines_left = 0
  /\ exit_code' = 0
  /\ pc' = "done"
  /\ UNCHANGED <<cfg, lines_left, prog_no, mem, qs, top, i, end_cnt, fcsv, fout,
                 stderr, hist>>

Next ==
  \/ Start \/ Getline \/ MalformedLine \/ OpenProgFail \/ LoadProgram
  \/ WriteReference \/ SimInit \/ RstRise \/ RstFall \/ RstLog \/ RstRelease
  \/ LoopTest \/ ServiceRequest \/ Rise \/ Deliver \/ Advance \/ Fall \/ LogCycle
  \/ EndCheck \/ WriteDump \/ Exit

Spec == Init /\ [][Next]_vars

SpecBatch == InitBatch /\ [][Next]_vars

(* ============================== claims ================================ *)
\* the response on the DUT's inbound pins
Inbound == <<top.mem_rvalid_i, top.mem_rdata_i, top.mem_err_i>>

\* positions of an active cycle after the delivery of lines 176-179
Delivered == pc \in {"advance", "fall", "log", "endchk"}

\* C1 as stated: with latency L >= 1 the response on the inbound pins after the
\* delivery of an active cycle is the one pushed L cycles before, and no valid
\* response is delivered while no push is L cycles old.
C1_DeliveredAfterL ==
  (Delivered /\ mem_latency >= 1) =>
    IF Len(pushed) >= mem_latency + 1 THEN Inbound = pushed[mem_latency + 1]
    ELSE top.mem_rvalid_i = 0

\* C1 amended: with latency L >= 1 the response on the inbound pins after the
\* delivery of active cycle T+L-1 is the one pushed in cycle T (the push of the
\* same cycle for L = 1), and in the first L-1 active cycles the response
\* delivered is not valid.
C1_DeliveredAfterLMinus1 ==
  (Delivered /\ mem_latency >= 1) =>
    IF Len(pushed) >= mem_latency THEN Inbound = pushed[mem_latency]
    ELSE top.mem_rvalid_i = 0

\* a delivery at latency 2 that tells the push of the cycle before from the
\* push of this cycle and from the one two cycles before
C1_Witness ==
  /\ pc = "advance" /\ mem_latency = 2 /\ Len(pushed) = 3
  /\ top.mem_rvalid_i = 1
  /\ pushed[2] # pushed[1] /\ pushed[2] # pushed[3]

\* C2: with latency 0 delivery is pass-through (the inbound pins carry the
\* response of the same cycle's request) and every queue index used lies in
\* [0, mem_latency).
C2_ZeroLatencyPassThrough ==
  /\ \A k \in q_idx : 0 <= k /\ k < mem_latency
  /\ (Delivered /\ mem_latency = 0) => Inbound = pushed[1]

\* C3: when the simulation of a program halts, the DUT has shown a valid
\* request to address 0 first at the falling edge of an active cycle C
\* (counted from 0) and exactly C + extra_cycles active cycles have run.
C3_HaltsAtCPlusExtra ==
  (pc = "dump" /\ zero_at # -1) => (zero_at >= 0 /\ cycle = zero_at + extra_cycles)

\* C4: the response pushed for a valid request whose requested address is
\* >= memory_size has the error flag set.
C4_OutOfRangeFlagged ==
  (pc = "rise" /\ top.mem_req_o = 1 /\ top.mem_addr_o >= mem_sz) => pushed[1][3] = 1

\* the push whose response the claims expect on the pins after delivery
DueSlot == IF mem_latency = 0 THEN 1 ELSE mem_latency

\* C5: the error flag pushed for a valid request is 0 (every address is in
\* range after reduction modulo memory_size), and so is the error flag of the
\* valid response on the inbound pins when the response of that request is due.
C5_WrappedNeverFlagged ==
  /\ (pc = "rise" /\ top.mem_req_o = 1) => pushed[1][3] = 0
  /\ (Delivered /\ Len(pushed) >= DueSlot /\ pushed[DueSlot][1] = 1
         /\ top.mem_rvalid_i = 1) => top.mem_err_i = 0

\* positions between the start of the reset sequence and the end of the run
SimPcs == {"rst_rise", "rst_fall", "rst_log", "rst_release", "loop", "req", "rise",
           "deliver", "advance", "fall", "log", "endchk"}

\* the first byte of the bus-width word holding address a, reduced modulo the image size
WordBase(a) == ((a % mem_sz) \div BusBytes) * BusBytes

\* a step of the simulation changes only bytes a valid write request enables
C6_Step ==
  pc \in SimPcs =>
    \A k \in DOMAIN mem :
      mem'[k] # mem[k] =>
        /\ pc = "req" /\ top.mem_req_o # 0 /\ top.mem_we_o # 0
        /\ k >= WordBase(top.mem_addr_o)
        /\ k < WordBase(top.mem_addr_o) + BusBytes
        /\ BitOf(top.mem_be_o, k - WordBase(top.mem_addr_o)) = 1

\* C6: during simulation a byte of MemoryImage changes only in the step that
\* services a valid write request, only inside the bus-width word at the
\* effective address and only where the byte-enable bit is set; and when the
\* run ends without any valid write request serviced, the image is the image
\* right after loading.
C6_WriteFrame ==
  /\ [][C6_Step]_vars
  /\ []((pc = "dump" /\ ~wrote) => mem = mem_loaded)

\* a write of the top lane only has been applied: byte 1 holds the write
\* data, byte 0 of the same word still holds the loaded value
C6_Witness ==
  /\ pc = "rise" /\ mem_w = 16 /\ top.mem_req_o = 1 /\ top.mem_we_o = 1
  /\ top.mem_be_o = 2 /\ mem[1] = 161 /\ mem[0] = 1 /\ mem_loaded[1] = 2

\* C7: no index outside [0, memory_size) is used to read or write MemoryImage,
\* by servicing a request, by loading or by dumping.
C7_NoOutOfImageIndex == ~mem_oob

\* C8: when the simulation of a program starts after another program of the
\* batch was simulated (reset sequence entered, no reset cycle run yet), the
\* image is the loaded image, the three queues hold no value and the inbound
\* response pins carry none.
C8_NoResidue ==
  (pc = "rst_rise" /\ i = 0 /\ n_fall > 0) =>
    /\ mem = mem_loaded
    /\ \A k \in DOMAIN mem_rvalid_queue :
         mem_rvalid_queue[k] = 0 /\ mem_rdata_queue[k] = 0 /\ mem_err_queue[k] = 0
    /\ Inbound = <<0, 0, 0>>

\* C9: after a reference or dump file failed to open, no stdio call is made
\* on its handle and the process goes on.
C9_OpenFailureSkipsWrite ==
  (\E e \in stderr : e[2] \in {"ref", "dump"}) => (null_io = {} /\ pc # "crashed")

\* C10: the log starts with the header, every other line is a row, and there
\* is one row per full clock cycle executed: the row of a cycle is written
\* after its falling-edge evaluation and before anything else happens.
C10_LogRows ==
  IF pc = "start" THEN fcsv = << >> /\ n_fall = 0
  ELSE /\ Len(fcsv) >= 1
       /\ fcsv[1] = Header
       /\ \A k \in 2 .. Len(fcsv) : fcsv[k].kind = "row"
       /\ Len(fcsv) - 1 = IF pc \in {"rst_log", "log"} THEN n_fall - 1 ELSE n_fall

\* a batch of two simulated programs has ended normally
C10_Witness ==
  pc = "done" /\ exit_code = 0 /\ prog_no = 2 /\ Len(fcsv) > 1 + 2 * ResetCycles

(* ------------------------------ C11 ----------------------------------- *)
\* the words of an image file in file order, each with the byte address the
\* file gives it: @<hex> sets the word address, every word advances by four
RECURSIVE FileWords(_, _)
FileWords(lines, addr) ==
  IF lines = << >> THEN << >>
  ELSE LET l  == Head(lines)
           ws == IF l.comment THEN << >> ELSE l.words
           a0 == IF ~l.comment /\ l.at >= 0 THEN 4 * l.at ELSE addr
       IN [k \in 1 .. Len(ws) |-> <<a0 + 4 * (k - 1), ws[k]>>]
            \o FileWords(Tail(lines), a0 + 4 * Len(ws))

\* the word the file leaves at byte address a: the last one given, else zero
FileWordAt(file, a) ==
  LET fw == FileWords(file, 0)
      at == {k \in 1 .. Len(fw) : fw[k][1] = a}
  IN IF at = {} THEN 0 ELSE fw[CHOOSE k \in at : \A j \in at : j <= k][2]

\* eight hex digits read back as a 32-bit word (two's complement int)
ParseHex8(ds) ==
  LET hi == IF ds[1] >= 8 THEN ds[1] - 16 ELSE ds[1]
  IN hi * Pow2(28) + ds[2] * Pow2(24) + ds[3] * Pow2(20) + ds[4] * Pow2(16)
       + ds[5] * Pow2(12) + ds[6] * Pow2(8) + ds[7] * 16 + ds[8]

\* the reference file was just written for a word-aligned range inside the image
C11_RangeDumped ==
  /\ pc = "sim_init" /\ stderr = {}
  /\ rng[1] % 4 = 0 /\ rng[2] % 4 = 0
  /\ 0 <= rng[1] /\ rng[1] <= rng[2] /\ rng[2] <= mem_sz

\* C11: a word-aligned range inside the image, dumped right after loading and
\* read back as 32-bit hex words, gives one word per four bytes of the range,
\* each the word the image file gives that address (zero where it gives none).
C11_LoadDumpRoundTrip ==
  C11_RangeDumped =>
    /\ Len(fout) = (rng[2] - rng[1]) \div 4
    /\ \A k \in 1 .. Len(fout) :
         ParseHex8(fout[k]) = FileWordAt(fprog, rng[1] + 4 * (k - 1))

\* two words dumped, the second one overwritten by the file and negative as an int
C11_Witness ==
  /\ C11_RangeDumped /\ rng = <<0, 8>> /\ Len(fprog) = 2
  /\ ParseHex8(fout[1]) = ImgWords2[1] /\ ParseHex8(fout[2]) = ImgWords2[2]

(* ------------------------------ C12 ----------------------------------- *)
\* the positions of one active cycle, in the order of lines 159-195
CyclePcs == <<"req", "rise", "deliver", "advance", "fall", "log", "endchk", "loop">>

Slot(k) == <<mem_rvalid_queue[k], mem_rdata_queue[k], mem_err_queue[k]>>
SlotNext(k) == <<mem_rvalid_queue'[k], mem_rdata_queue'[k], mem_err_queue'[k]>>

C12_Step ==
  \A n \in 1 .. Len(CyclePcs) - 1 :
    pc = CyclePcs[n] =>
      /\ pc' \in {CyclePcs[n + 1], "crashed"}
      \* the image and slot 0 are written by the first step only
      /\ (mem' # mem \/ (0 \in DOMAIN mem_rvalid_queue /\ SlotNext(0) # Slot(0)))
           => pc = "req"
      /\ (pc = "req" /\ 0 \in DOMAIN mem_rvalid_queue)
           => SlotNext(0)[1] = top.mem_req_o /\ top' = top
      \* the clock: low until the rising edge, high until the falling edge
      /\ top.clk_i = (IF pc \in {"deliver", "advance", "fall"} THEN 1 ELSE 0)
      /\ top'.clk_i = (IF pc \in {"rise", "deliver", "advance"} THEN 1 ELSE 0)
      \* the DUT is evaluated by the two edges and the delivery only
      /\ top' # top => pc \in {"rise", "deliver", "fall"}
      \* the delivery takes slot L-1 as the push left it, before any shift
      /\ Inbound' # Inbound => pc = "deliver"
      /\ (pc = "deliver" /\ mem_latency >= 1)
           => /\ Inbound' = Slot(mem_latency - 1)
              /\ Slot(0) = pushed[1]
              /\ (mem_latency >= 2 /\ Len(pushed) >= 2) => Slot(1) = pushed[2]
      \* one shift, by the advance only
      /\ (\E k \in 1 .. mem_latency - 1 : SlotNext(k) # Slot(k)) => pc = "advance"
      /\ pc = "advance"
           => /\ \A k \in 1 .. mem_latency - 1 : SlotNext(k) = Slot(k - 1)
              /\ mem_latency >= 1 => SlotNext(0) = Slot(0)
      \* one row, after the falling edge
      /\ fcsv' # fcsv => pc = "log" /\ Len(fcsv') = Len(fcsv) + 1
      /\ pc = "log" => fcsv' # fcsv

\* C12: every active cycle runs its steps in one order: request read, write
\* applied and response pushed at slot 0; clock high and evaluation; slot L-1
\* delivered, unshifted, and evaluation; one shift; clock low and evaluation;
\* one log row. The clock is low at every cycle boundary.
C12_StepOrder == [][C12_Step]_vars

\* a second active cycle of a two-slot queue has ended with a response delivered
C12_Witness ==
  /\ pc = "loop" /\ cycle >= 2 /\ mem_latency = 2
  /\ top.mem_rvalid_i = 1 /\ top.clk_i = 0
  /\ Slot(1) = pushed[1] /\ pushed[1] # pushed[2]

(* ------------------------------ C13 ----------------------------------- *)
RstPcs == {"rst_rise", "rst_fall", "rst_log", "rst_release"}
RunPcs == {CyclePcs[n] : n \in 1 .. Len(CyclePcs)} \cup {"dump"}

\* active cycles of the current program logged so far
ActiveRows == IF pc = "log" THEN cycle - 1 ELSE cycle

C13_Step ==
  /\ pc \in RstPcs
       => /\ top.rst_ni = 0 /\ top.mem_rvalid_i = 0
          /\ top'.mem_rvalid_i = 0
          /\ cycle = 0
          /\ IF pc = "rst_release" THEN i = ResetCycles ELSE i < ResetCycles
          \* the i cycles run so far are the last i rows, all with reset asserted
          /\ Len(fcsv) >= 1 + i
          /\ \A k \in Len(fcsv) - i + 1 .. Len(fcsv) :
               fcsv[k].kind = "row" /\ fcsv[k].rst_ni = 0
  /\ pc = "rst_rise"
       => top.clk_i = 0 /\ top'.clk_i = 1 /\ top'.rst_ni = 0 /\ pc' = "rst_fall"
  /\ pc = "rst_fall"
       => top.clk_i = 1 /\ top'.clk_i = 0 /\ top'.rst_ni = 0 /\ pc' = "rst_log"
  /\ pc = "rst_log"
       => /\ fcsv' = Append(fcsv, [kind |-> "row", rst_ni |-> 0])
          /\ i' = i + 1 /\ top' = top
          /\ pc' = IF i' = ResetCycles THEN "rst_release" ELSE "rst_rise"
  \* the release: one evaluation, no clock edge, no row, then the first test
  \* of the loop condition
  /\ pc = "rst_release"
       => /\ top.clk_i = 0 /\ top'.clk_i = 0 /\ top'.rst_ni = 1
          /\ Inbound' = Inbound /\ fcsv' = fcsv /\ pc' = "loop"
  \* from the release to the dump reset stays deasserted, and the rows of the
  \* active cycles follow exactly ResetCycles rows of reset
  /\ pc \in RunPcs
       => /\ top.rst_ni = 1 /\ top'.rst_ni = 1
          /\ pc' \notin RstPcs
          /\ Len(fcsv) >= 1 + ResetCycles + ActiveRows
          /\ \A k \in 1 .. ActiveRows : fcsv[Len(fcsv) - k + 1].rst_ni = 1
          /\ \A k \in 1 .. ResetCycles : fcsv[Len(fcsv) - ActiveRows - k + 1].rst_ni = 0

\* C13: each program runs exactly ten full clock cycles with reset asserted
\* and the inbound response-valid pin deasserted, one row logged per cycle,
\* before its first active cycle; reset is released by one evaluation without
\* a clock edge and stays released until the dump of that program.
C13_ResetProtocol == [][C13_Step]_vars

\* the second program of a batch is in its second active cycle
C13_Witness ==
  /\ pc = "req" /\ prog_no = 2 /\ cycle = 1 /\ top.rst_ni = 1
  /\ n_fall = 2 * ResetCycles + 1 + ActiveRows

(* ------------------------------ C14 ----------------------------------- *)
\* DRAINING: the end counter has started
Draining == end_cnt > 0

\* the request serviced in a later active cycle was on the pins at the end
\* check of the cycle before
C14_LaterZeroRequestDrains ==
  (pc = "rise" /\ cycle >= 1 /\ ZeroReq(top)) => Draining

\* the counter starts only in a cycle whose falling edge showed a valid
\* request with address 0
C14_OnlyZeroRequestDrains ==
  (pc = "loop" /\ Draining /\ zero_at # -1) => zero_at >= 0

\* C14: a valid request with (pre-modulo) address 0 serviced in an active
\* cycle, the one visible right after the release of reset included, has moved
\* the machine to DRAINING by the end of that cycle; nothing else does.
C14_ZeroRequestDrains ==
  /\ C14_LaterZeroRequestDrains
  /\ C14_OnlyZeroRequestDrains
  /\ (pc = "loop" /\ cycle >= 1 /\ zero_at = -1) => Draining

(* ------------------------------ C15 ----------------------------------- *)
C15_Step ==
  pc \in RunPcs =>
    \* the counter moves at the end check only, and by one
    /\ end_cnt' # end_cnt => pc = "endchk" /\ end_cnt' = end_cnt + 1
    \* DRAINING is left by no step, and every end check counts
    /\ Draining => end_cnt' >= end_cnt
    /\ (Draining /\ pc = "endchk") => end_cnt' = end_cnt + 1
    \* the loop is left at its test, as soon as the counter is extra_cycles
    /\ end_cnt <= extra_cycles
    /\ (pc = "loop" /\ Draining)
         => /\ top.clk_i = 0
            /\ pc' = IF end_cnt = extra_cycles THEN "dump" ELSE "req"
    /\ pc' = "dump" => pc = "loop" /\ end_cnt = extra_cycles
    \* hence at most extra_cycles cycles after the one that started the counter
    /\ (pc = "loop" /\ Draining /\ zero_at >= 0) => end_cnt = cycle - zero_at

\* C15: once the end counter is positive it never returns to 0 during the
\* program: every end check adds exactly one whatever the DUT drives, and the
\* loop is left at the loop test after a falling edge as soon as the counter
\* equals extra_cycles, extra_cycles cycles after the counter started.
C15_DrainingCounts == [][C15_Step]_vars

\* the counter went from 1 to 2 in a cycle in which the DUT showed no request
\* to address 0, and the loop was left
C15_Witness ==
  /\ pc = "dump" /\ extra_cycles = 2 /\ end_cnt = 2
  /\ zero_at >= 0 /\ cycle = zero_at + 2 /\ ~ZeroReq(top)

(* ------------------------------ C16 ----------------------------------- *)
\* the write request on the pins is in the image: every enabled byte lane of
\* the word at address 0 holds its byte of the write data
WriteOnPinsApplied ==
  \A n \in 0 .. BusBytes - 1 :
    (BitOf(top.mem_be_o, n) = 1 /\ InImage(n)) => mem[n] = (top.mem_wdata_o \div Pow2(8 * n)) % 256

\* the request that started the end counter is a write and is on the pins
TriggerWriteOnPins ==
  end_cnt = 1 /\ top.mem_req_o = 1 /\ top.mem_addr_o = 0 /\ top.mem_we_o = 1

\* the stepper has just serviced the request that started the end counter
C16_TriggerServiced ==
  (pc = "rise" /\ TriggerWriteOnPins /\ cycle >= 1) => WriteOnPinsApplied

\* C16: when the loop is left with extra_cycles >= 1, the write request to
\* address 0 that started the end counter (the last of the requests the claim
\* covers; the earlier ones were serviced by the cycles that followed them)
\* is in the image that is dumped.
C16_WritesAppliedAtHalt ==
  (pc = "dump" /\ extra_cycles >= 1 /\ TriggerWriteOnPins) => WriteOnPinsApplied

(* ------------------------------ C17 ----------------------------------- *)
\* the pushes of this program, newest first, as far as they are kept
Pushes == {pushed[k] : k \in 1 .. Len(pushed)}

C17_Body ==
  \* every cycle pushes the response of its request, the three queues together
  /\ pc = "rise"
       => /\ pushed[1][1] = top.mem_req_o
          /\ mem_latency >= 1 => Slot(0) = pushed[1]
  \* a valid response on the pins is a pushed one, whole
  /\ (Delivered /\ top.mem_rvalid_i = 1) => Inbound \in Pushes
  \* and the pushes come out one per cycle in the order they went in
  /\ (Delivered /\ mem_latency >= 1)
       => IF Len(pushed) >= mem_latency
          THEN /\ top.mem_rvalid_i = pushed[mem_latency][1]
               /\ top.mem_rvalid_i = 1 => Inbound = pushed[mem_latency]
          ELSE top.mem_rvalid_i = 0

C17_WithQueue == mem_latency >= 1 => C17_Body

\* C17: every active cycle pushes a response whose valid flag is the request
\* valid of that cycle, and the valid responses delivered are the responses
\* of the valid requests serviced, in order, each once, valid, data and
\* error of one request together; none is invented.
C17_InOrderNothingInvented == C17_Body

(* ------------------------------ C18 ----------------------------------- *)
\* byte n of a bus word kept as one number
WordByte(w, n) == (w \div Pow2(8 * n)) % 256

C18_Body ==
  \* the data pushed for the request just serviced is the word of the image
  \* as the request's own write left it
  /\ (pc = "rise" /\ top.mem_req_o = 1)
       => \A n \in 0 .. BusBytes - 1 :
            LET a == EffAddr(top.mem_addr_o) + n IN
              InImage(a)
                => /\ WordByte(pushed[1][2], n) = mem[a]
                   /\ (top.mem_we_o = 1 /\ BitOf(top.mem_be_o, n) = 1)
                        => WordByte(pushed[1][2], n) = WordByte(top.mem_wdata_o, n)
  \* the data of a valid response on the pins is the data pushed for its
  \* request, whatever was written to the image since
  /\ (Delivered /\ top.mem_rvalid_i = 1 /\ Len(pushed) >= DueSlot
         /\ pushed[DueSlot][1] = 1)
       => top.mem_rdata_i = pushed[DueSlot][2]

C18_WithQueue == mem_latency >= 1 => C18_Body

\* C18: the data of a response is the bus-width word of the image at the
\* effective address of its request, read when the request is serviced and
\* after the request's own masked write; it is delivered unchanged by the
\* writes serviced while it waits in the queue.
C18_ReadDataSnapshot == C18_Body

====
